---- MODULE Spec2Model ----
(***************************************************************************)
(* A model of speedtest-cli (robertmeta/speedtest-cli, Go).                *)
(*                                                                         *)
(* main() runs getConfig, getClient, getClosestServers, getBestServer and  *)
(* downloadSpeed in that order.  getBestServer starts one goroutine per    *)
(* candidate server; downloadSpeed starts one URL producer and             *)
(* concurrentDownloads consumers over an unbuffered channel.  Every        *)
(* goroutine is modelled step by step, a step ending at each operation     *)
(* another goroutine can observe (channel, mutex, WaitGroup, HTTP fetch).  *)
(*                                                                         *)
(* Durations are integers in nanoseconds.  Printing is left out.  A local  *)
(* variable holds its value for as long as a statement can still read it;  *)
(* from the step after which none can, it holds its zero value again.      *)
(***************************************************************************)
EXTENDS Integers, Sequences, FiniteSets, TLC

(***************************************************************************)
(* Program constants.                                                      *)
(***************************************************************************)
bytesPerMegabit == 131072
concurrentDownloads == 6
duplicateDownloads == 4
nanoSecPerMilli == 1000000
numberOfClosestServers == 5
timesToRunLatency == 5
downloadSizes == <<350, 500, 750, 1000, 1500, 2000, 2500, 3000, 3500, 4000>>

(***************************************************************************)
(* Bounds of the model.                                                    *)
(***************************************************************************)
\* longest server list explored for getClosestServers alone (SpecRank)
MaxServers == 6
\* longest server list explored for the whole run (Spec)
MaxCand == 2
\* number of consumer goroutines explored: Min(concurrentDownloads, MaxWorkers)
MaxWorkers == 2
\* number of leading entries of downloadSizes explored
MaxSizes == 1
\* largest value, in ns, of a time.Since(time.Now()) reading
MaxJitter == 1

Min(a, b) == IF a <= b THEN a ELSE b

(***************************************************************************)
(* float64 values that occur as distances: a non-negative number of km or  *)
(* NaN.  Go compares NaN unequal to and unordered with everything.         *)
(***************************************************************************)
NaN == -1

FloatLess(x, y) == x # NaN /\ y # NaN /\ x < y

FloatGreater(x, y) == FloatLess(y, x)

FloatLeq(x, y) == x # NaN /\ y # NaN /\ x <= y

FloatEq(x, y) == x # NaN /\ y # NaN /\ x = y

(***************************************************************************)
(* distance().  Coordinates are multiples of 60 degrees, where sin^2 of a  *)
(* half difference is an exact number of quarters and cos of a latitude an *)
(* exact number of halves, so the haversine term a is an exact number of   *)
(* sixteenths.                                                             *)
(***************************************************************************)
Abs(x) == IF x < 0 THEN -x ELSE x

\* 4 * sin(d/2)^2 for d degrees, d a multiple of 60
Sin2Half(d) == <<0, 1, 3, 4, 3, 1>>[((Abs(d) \div 60) % 6) + 1]

\* 2 * cos(lat) for lat degrees, lat one of -60, 0, 60
Cos(lat) == <<2, 1>>[(Abs(lat) \div 60) + 1]

\* round(2 * asin(sqrt(n/16)) * earthsRadiusKm) for n = 0..16, earthsRadiusKm = 6371
ArcKm == <<0, 3220, 4605, 5706, 6672, 7559, 8398, 9209, 10008, 10806, 11617,
           12457, 13343, 14309, 15411, 16795, 20015>>

\* 16 * a of distance(): the second term uses cos(radOriginLat) twice
HaversineA(origin, destination) ==
    LET dlat == destination.Lat - origin.Lat
        dlon == destination.Long - origin.Long
        radOriginLat == origin.Lat
    IN  4 * Sin2Half(dlat) + Cos(radOriginLat) * Cos(radOriginLat) * Sin2Half(dlon)

\* a > 1 makes math.Sqrt(1-a) NaN, and so math.Atan2 and the product
distance(origin, destination) ==
    LET a == HaversineA(origin, destination)
    IN  IF a > 16 THEN NaN ELSE ArcKm[a + 1]

(***************************************************************************)
(* Data.  A Server is identified by its Name; Url is what url.Parse makes  *)
(* of the url attribute: whether it parses, whether it names a host, and   *)
(* the path as a sequence of tokens, "/" or the name of one non-empty run  *)
(* of other characters.                                                    *)
(***************************************************************************)
Point(lat, long) == [Lat |-> lat, Long |-> long]

ParsedUrl(ok, host, path) == [ok |-> ok, host |-> host, path |-> path]

Server(name, pt, url) ==
    [Name |-> name, Lat |-> pt.Lat, Long |-> pt.Long, Url |-> url,
     Distance |-> 0, Ping |-> 0]

\* the zero value of Server: url.Parse("") succeeds, with no host and an
\* empty path
ZeroServer == Server(0, Point(0, 0), ParsedUrl(TRUE, FALSE, <<>>))

VARIABLES
    pc,              \* where main() is
    flagServer,      \* the package variable server, set by the -server flag
    config,          \* Config.Clients as decoded by getConfig
    unmarshalErr,    \* whether the last xml.Unmarshal returned an error (the
                     \* callers drop it)
    client,          \* the Client main() passes on
    servers,         \* Servers.ServerGroup as decoded by getClosestServers
    idx,             \* getClosestServers: index of the next server of the range loop
    closestServers,  \* getClosestServers: the map[float64]Server
    s,               \* the slice getClosestServers returns
    firstPass,       \* getBestServer
    bestServer,      \* getBestServer
    bestServerLock,  \* getBestServer: the holder of the mutex, 0 when free
    task,            \* getBestServer: the goroutine of each candidate, by Name
    recorded,        \* per goroutine that took bestServerLock, in that order: the
                     \* Name, the Ping, the number of probes that succeeded, the
                     \* number issued and the summed time of the successful ones
    wg,              \* the counter of the global sync.WaitGroup
    b,               \* the Server main() passes to downloadSpeed
    prod,            \* downloadSpeed: the URL generator goroutine
    closed,          \* downloadSpeed: whether ch is closed
    worker,          \* downloadSpeed: the consumer goroutines
    totalBytes,      \* downloadSpeed
    totalDur,        \* downloadSpeed
    totalBytesLock,  \* downloadSpeed: the holder of the mutex, 0 when free
    sent,            \* the URLs handed over on ch so far, in order
    fetched,         \* per URL handed over on ch, the results of its fetches
    mb               \* what downloadSpeed returns

cfgVars == <<flagServer, config, unmarshalErr, client>>
rankVars == <<servers, idx, closestServers, s>>
bestVars == <<firstPass, bestServer, bestServerLock, task, recorded>>
dlVars ==
    <<b, prod, closed, worker, totalBytes, totalDur, totalBytesLock, sent, fetched, mb>>
vars == <<pc, cfgVars, rankVars, bestVars, wg, dlVars>>

\* the process is alive: log.Fatal, a panic and os.Exit end every goroutine
Running == pc \notin {"fatal", "panic", "exit", "done"}

(***************************************************************************)
(* time.Since(time.Now()): the time between two successive clock readings, *)
(* not necessarily zero.                                                   *)
(***************************************************************************)
TimeSinceNow == 0..MaxJitter

(***************************************************************************)
(* The map[float64]Server, a set of entries.  A NaN key equals no key, not *)
(* even itself: an assignment under NaN always adds an entry, and a delete *)
(* of NaN removes nothing.                                                 *)
(***************************************************************************)
MapLen(m) == Cardinality(m)

MapAssign(m, k, v) ==
    {e \in m : ~FloatEq(e.k, k)} \cup {[k |-> k, v |-> v]}

MapDelete(m, k) == {e \in m : ~FloatEq(e.k, k)}

MapValues(m) == {e.v : e \in m}

\* lines 162-167: the largest key, starting from the zero value of float64
HighestDistance(m) ==
    LET ks == {e.k : e \in {x \in m : FloatGreater(x.k, 0)}} \cup {0}
    IN  CHOOSE h \in ks : \A k \in ks : ~FloatGreater(k, h)

\* lines 158-172: one iteration of the range loop
ClosestAfter(m, c, srv) ==
    LET server == [srv EXCEPT !.Distance =
                       distance(Point(c.Lat, c.Long), Point(srv.Lat, srv.Long))]
    IN  IF MapLen(m) < numberOfClosestServers
        THEN MapAssign(m, server.Distance, server)
        ELSE IF FloatLess(server.Distance, HighestDistance(m))
             THEN MapAssign(MapDelete(m, HighestDistance(m)), server.Distance, server)
             ELSE m

(***************************************************************************)
(* What the network hands to the program.                                  *)
(***************************************************************************)
\* the client records a configuration response can decode to
ClientPoints == {Point(0, 0), Point(60, 0)}

\* the url attributes of a server: unparsable, http://host/,
\* http://host/speedtest/upload.php
ServerUrls ==
    {ParsedUrl(FALSE, FALSE, <<>>), ParsedUrl(TRUE, TRUE, <<"/">>),
     ParsedUrl(TRUE, TRUE, <<"/", "speedtest", "/", "upload.php">>)}

ServerPoints == {Point(60, 0), Point(60, 60)}

\* the server locations explored for getClosestServers alone
RankPoints ==
    {Point(60, 0), Point(60, 60), Point(60, 120), Point(60, 180),
     Point(0, 60), Point(0, 180)}

RankUrl == ParsedUrl(TRUE, TRUE, <<"/", "speedtest", "/", "upload.php">>)

\* a server list: the servers of given locations and urls, each named by its
\* place in the list
ServerList(f) == [i \in DOMAIN f |-> Server(i, f[i][1], f[i][2])]

\* the server lists of at most n servers over the given locations and urls
ServerLists(pts, urls, n) ==
    UNION {{ServerList(f) : f \in [1..k -> pts \X urls]} : k \in 0..n}

\* an HTTP fetch of the configuration: an error, or a body and what it decodes to
\* (a body that is not the expected XML decodes to no client record, or to a
\* client record of which some attributes were decoded before the error)
ConfigFetches ==
    {[err |-> TRUE, xmlErr |-> FALSE, Clients |-> <<>>]}
        \cup {[err |-> FALSE, xmlErr |-> x, Clients |-> cs] :
                 x \in BOOLEAN,
                 cs \in {<<>>} \cup {<<c>> : c \in ClientPoints}}

\* an HTTP fetch of the server list: an error, or a body and what it decodes to
\* (no servers element, or one servers element with its server elements)
ServerFetches ==
    {[err |-> TRUE, xmlErr |-> FALSE, ServerGroup |-> <<>>]}
        \cup {[err |-> FALSE, xmlErr |-> x, ServerGroup |-> g] :
                 x \in BOOLEAN,
                 g \in {<<>>} \cup {<<l>> : l \in ServerLists(ServerPoints, ServerUrls, MaxCand)}}

(***************************************************************************)
(* main(), getConfig(), getClient().                                       *)
(***************************************************************************)
\* the values of the -server flag: not given, or a server ID
ServerFlags == {"", "1"}

\* lines 100-114: flag.Parse sets server and help; only help is looked at
Main ==
    /\ pc = "main"
    /\ flagServer' \in ServerFlags
    /\ \E help \in BOOLEAN : pc' = IF help THEN "exit" ELSE "getConfig"
    /\ UNCHANGED <<config, unmarshalErr, client, rankVars, bestVars, wg, dlVars>>

\* lines 131-142: a fetch error is fatal, a decoding error is ignored
GetConfig ==
    /\ pc = "getConfig"
    /\ \E r \in ConfigFetches :
          /\ pc' = IF r.err THEN "fatal" ELSE "getClient"
          /\ config' = r.Clients
          /\ unmarshalErr' = r.xmlErr
    /\ UNCHANGED <<flagServer, client, rankVars, bestVars, wg, dlVars>>

\* lines 123-129: c.Clients[0] panics when no client record was decoded
GetClient ==
    /\ pc = "getClient"
    /\ pc' = IF config = <<>> THEN "panic" ELSE "getClosestServers"
    /\ client' = IF config = <<>> THEN client ELSE config[1]
    /\ config' = <<>>
    /\ unmarshalErr' = FALSE
    /\ UNCHANGED <<flagServer, rankVars, bestVars, wg, dlVars>>

(***************************************************************************)
(* getClosestServers().                                                    *)
(***************************************************************************)
\* lines 145-157: the fetch, the decoding and the range expression, which
\* panics on servers.ServerGroup[0] when no servers element was decoded
FetchServers ==
    /\ pc = "getClosestServers"
    /\ \E r \in ServerFetches :
          /\ pc' = IF r.err THEN "fatal"
                   ELSE IF r.ServerGroup = <<>> THEN "panic" ELSE "rank"
          /\ servers' = r.ServerGroup
          /\ unmarshalErr' = r.xmlErr
    /\ idx' = 1
    /\ closestServers' = {}
    /\ UNCHANGED <<flagServer, config, client, s, bestVars, wg, dlVars>>

\* lines 157-173: one iteration of the range loop
RankStep ==
    /\ pc = "rank"
    /\ idx <= Len(servers[1])
    /\ closestServers' = ClosestAfter(closestServers, client, servers[1][idx])
    /\ idx' = idx + 1
    /\ UNCHANGED <<pc, cfgVars, servers, s, bestVars, wg, dlVars>>

\* lines 175-180: the map's values in the order the range over the map yields
\* them, which Go leaves unspecified: the slice is kept as the set of its
\* elements, and the loop over it takes them in any order
RankReturn ==
    /\ pc = "rank"
    /\ idx > Len(servers[1])
    /\ s' = MapValues(closestServers)
    /\ pc' = "getBestServer"
    /\ UNCHANGED <<cfgVars, servers, idx, closestServers, bestVars, wg, dlVars>>

(***************************************************************************)
(* fetchHttp(): an error with a time.Since(time.Now()) as duration, or the *)
(* body (its length) and the time the download took.  http.Get of a URL    *)
(* that names no host is always an error.                                  *)
(***************************************************************************)
FetchHttp(host, lens, durs) ==
    {[err |-> TRUE, len |-> 0, dur |-> j] : j \in TimeSinceNow}
        \cup {[err |-> FALSE, len |-> l, dur |-> d] :
                 l \in IF host THEN lens ELSE {}, d \in durs}

\* the times a latency probe can take, in ns
ProbeDurations == {1000000, 3999999}

\* the length of latency.txt
LatencyLens == {10}

durationToMilliSeconds(td) == td \div nanoSecPerMilli

(***************************************************************************)
(* getBestServer().                                                        *)
(***************************************************************************)
\* a goroutine that is not running: not started yet, or returned.  Next to
\* the locals server, i and totalDur the frame keeps what the goroutine has
\* done so far: the number of fetchHttp calls (issued) and the sum of the
\* durations of those that succeeded (okDur)
NoFrame(at, srv) ==
    [pc |-> at, server |-> srv, i |-> 0, totalDur |-> 0, issued |-> 0, okDur |-> 0]

\* lines 183-189.  The frame of getClosestServers is gone; nothing reads
\* client again, and the range loop's servers are kept in task.
BestInit ==
    /\ pc = "getBestServer"
    /\ pc' = "spawn"
    /\ firstPass' = TRUE
    /\ bestServer' = ZeroServer
    /\ bestServerLock' = 0
    /\ task' = [n \in {r.Name : r \in s} |->
                   NoFrame("unspawned", CHOOSE r \in s : r.Name = n)]
    /\ recorded' = <<>>
    /\ servers' = <<>>
    /\ idx' = 0
    /\ closestServers' = {}
    /\ s' = {}
    /\ client' = Point(0, 0)
    /\ unmarshalErr' = FALSE
    /\ UNCHANGED <<flagServer, config, wg, dlVars>>

\* lines 190-192, 215: wg.Add(1) and the go statement for the next server
BestSpawn(n) ==
    /\ pc = "spawn"
    /\ task[n].pc = "unspawned"
    /\ wg' = wg + 1
    /\ task' = [task EXCEPT ![n].pc = "parse"]
    /\ UNCHANGED <<pc, cfgVars, rankVars, firstPass, bestServer, bestServerLock,
                   recorded, dlVars>>

\* lines 194-199 with return for log.Fatal: a goroutine whose URL does not
\* parse returns and the others go on
TaskParseReturn(n) ==
    /\ Running
    /\ task[n].pc = "parse"
    /\ \E j \in TimeSinceNow :
          task' = IF task[n].server.Url.ok
                  THEN [task EXCEPT ![n].pc = "probe", ![n].totalDur = j]
                  ELSE [task EXCEPT ![n].pc = "unlocked"]
    /\ UNCHANGED <<pc, cfgVars, rankVars, firstPass, bestServer, bestServerLock,
                   recorded, wg, dlVars>>

\* lines 194-199: url.Parse, log.Fatal on its error, the start of totalDur
TaskParse(n) ==
    /\ Running
    /\ task[n].pc = "parse"
    /\ \E j \in TimeSinceNow :
          IF task[n].server.Url.ok
          THEN /\ task' = [task EXCEPT ![n].pc = "probe", ![n].totalDur = j]
               /\ pc' = pc
          ELSE /\ task' = task
               /\ pc' = "fatal"
    /\ UNCHANGED <<cfgVars, rankVars, firstPass, bestServer, bestServerLock,
                   recorded, wg, dlVars>>

\* lines 200-208 with return for the break and a wg.Done() that is not
\* deferred: after a failed probe the goroutine is gone without its Done
ProbeAfterReturn(t, r) ==
    IF r.err THEN [t EXCEPT !.pc = "returned", !.issued = t.issued + 1]
    ELSE LET last == t.i + 1 >= timesToRunLatency
         IN  [pc |-> IF last THEN "lock" ELSE "probe",
              server |-> IF last
                         THEN [t.server EXCEPT !.Ping =
                                  durationToMilliSeconds(t.totalDur + r.dur)
                                      \div timesToRunLatency]
                         ELSE t.server,
              i |-> t.i + 1,
              totalDur |-> t.totalDur + r.dur,
              issued |-> t.issued + 1,
              okDur |-> t.okDur + r.dur]

\* lines 200-208: one probe; after the last one, or at the break, the Ping
ProbeAfter(t, r) ==
    LET dur == IF r.err THEN t.totalDur ELSE t.totalDur + r.dur
        i == IF r.err THEN t.i ELSE t.i + 1
        last == r.err \/ i >= timesToRunLatency
    IN  [pc |-> IF last THEN "lock" ELSE "probe",
         server |-> IF last
                    THEN [t.server EXCEPT !.Ping =
                             durationToMilliSeconds(dur) \div timesToRunLatency]
                    ELSE t.server,
         i |-> i,
         totalDur |-> dur,
         issued |-> t.issued + 1,
         okDur |-> IF r.err THEN t.okDur ELSE t.okDur + r.dur]

TaskProbe(n) ==
    /\ Running
    /\ task[n].pc = "probe"
    /\ \E r \in FetchHttp(task[n].server.Url.host, LatencyLens, ProbeDurations) :
          task' = [task EXCEPT ![n] = ProbeAfter(task[n], r)]
    /\ UNCHANGED <<pc, cfgVars, rankVars, firstPass, bestServer, bestServerLock,
                   recorded, wg, dlVars>>

\* a Lock() that does not wait for the mutex
LockReturnsAtOnce(holder) == TRUE

\* lines 209 and 264: Lock() of a sync.Mutex returns when no goroutine holds it
LockReturns(holder) == holder = 0

\* line 209
TaskLock(n) ==
    /\ Running
    /\ task[n].pc = "lock"
    /\ LockReturns(bestServerLock)
    /\ bestServerLock' = n
    /\ task' = [task EXCEPT ![n].pc = "locked"]
    /\ recorded' = Append(recorded, [Name |-> n, Ping |-> task[n].server.Ping,
                                     probes |-> task[n].i,
                                     issued |-> task[n].issued,
                                     okDur |-> task[n].okDur])
    /\ UNCHANGED <<pc, cfgVars, rankVars, firstPass, bestServer, wg, dlVars>>

\* line 210 without its test: every goroutine replaces the recorded server
ReplacesAlways(first, server, best) == TRUE

\* line 210 with <= for <: an equal Ping replaces the recorded server
ReplacesOrEqual(first, server, best) == first \/ server.Ping <= best.Ping

\* line 210: whether the goroutine's server replaces the recorded one
Replaces(first, server, best) == first \/ server.Ping < best.Ping

\* lines 210-214
TaskRecord(n) ==
    /\ Running
    /\ task[n].pc = "locked"
    /\ firstPass' = IF Replaces(firstPass, task[n].server, bestServer)
                    THEN FALSE ELSE firstPass
    /\ bestServer' = IF Replaces(firstPass, task[n].server, bestServer)
                     THEN task[n].server ELSE bestServer
    /\ bestServerLock' = 0
    /\ task' = [task EXCEPT ![n].pc = "unlocked"]
    /\ UNCHANGED <<pc, cfgVars, rankVars, recorded, wg, dlVars>>

\* line 193: the deferred wg.Done(); the goroutine returns
TaskDone(n) ==
    /\ Running
    /\ task[n].pc = "unlocked"
    /\ wg' = wg - 1
    /\ task' = [task EXCEPT ![n] = NoFrame("done", ZeroServer)]
    /\ UNCHANGED <<pc, cfgVars, rankVars, firstPass, bestServer, bestServerLock,
                   recorded, dlVars>>

\* a wg.Wait() that does not wait
WaitReturnsAtOnce(counter) == TRUE

\* wg.Wait() returns
WaitReturns(counter) == counter = 0

\* lines 216-218: the loop is over, wg.Wait() returns, bestServer is returned
BestWait ==
    /\ pc = "spawn"
    /\ \A n \in DOMAIN task : task[n].pc # "unspawned"
    /\ WaitReturns(wg)
    /\ pc' = "downloadSpeed"
    /\ b' = bestServer
    /\ UNCHANGED <<cfgVars, rankVars, bestVars, wg, prod, closed, worker,
                   totalBytes, totalDur, totalBytesLock, sent, fetched, mb>>

(***************************************************************************)
(* downloadSpeed().                                                        *)
(***************************************************************************)
\* the consumer goroutines
Workers == 1..Min(concurrentDownloads, MaxWorkers)

\* the sizes the producer goes through
Sizes == SubSeq(downloadSizes, 1, Min(Len(downloadSizes), MaxSizes))

\* the number of URLs the producer sends
NumUrls == Len(Sizes) * duplicateDownloads

\* the size of the k-th URL: each size duplicateDownloads times in a row
SizeOf(k) == Sizes[((k - 1) \div duplicateDownloads) + 1]

\* "random"+strconv.Itoa(int(size))+"x"+strconv.Itoa(int(size))+".jpg"
RandomJpg(size) == "random" \o ToString(size) \o "x" \o ToString(size) \o ".jpg"

\* the places of the "/" tokens of a path that a token follows
SlashesBeforeEnd(path) == {j \in 1..(Len(path) - 1) : path[j] = "/"}

\* re.ReplaceAllString(path, "$1/" + name) for re "(.*)/(.+?)$": the greedy (.*)
\* ends before the last "/" that something follows; a path with no such "/"
\* does not match and is returned as it is
ReplaceAllString(path, name) ==
    IF SlashesBeforeEnd(path) = {}
    THEN path
    ELSE LET j == CHOOSE x \in SlashesBeforeEnd(path) :
                      \A y \in SlashesBeforeEnd(path) : y <= x
         IN  SubSeq(path, 1, j - 1) \o <<"/", name>>

\* lines 241-242: the path of the k-th URL, made from the path of the one before
NextPath(path, k) == ReplaceAllString(path, RandomJpg(SizeOf(k)))

\* what the fetches of the download URLs can return
BodyLens == {3}

DownloadDurations == {2000000}

NoUrl == [host |-> FALSE, path |-> <<>>]

Idle(at) == [pc |-> at, url |-> NoUrl, n |-> 0, b |-> 0, d |-> 0]

\* lines 221-247: the locals, url.Parse and log.Fatal on its error, wg.Add(1)
\* and the go statement of the producer.  The frame of getBestServer is gone;
\* nothing reads server after url.Parse.
DlStart ==
    /\ pc = "downloadSpeed"
    /\ firstPass' = TRUE
    /\ bestServer' = ZeroServer
    /\ recorded' = <<>>
    /\ totalBytes' = 0
    /\ \E j \in TimeSinceNow : totalDur' = j
    /\ totalBytesLock' = 0
    /\ closed' = FALSE
    /\ sent' = <<>>
    /\ fetched' = [k \in 1..NumUrls |-> <<>>]
    /\ worker' = [w \in Workers |-> Idle("unspawned")]
    /\ IF b.Url.ok
       THEN /\ pc' = "consumers"
            /\ wg' = wg + 1
            /\ prod' = [pc |-> "start", n |-> 0, Host |-> b.Url.host,
                         Path |-> b.Url.path]
       ELSE /\ pc' = "fatal"
            /\ wg' = wg
            /\ prod' = prod
    /\ b' = ZeroServer
    /\ UNCHANGED <<cfgVars, rankVars, bestServerLock, task, mb>>

\* line 238 and the first pass of lines 239-242: wg.Done() at once, then the
\* path of the first URL
ProdStart ==
    /\ Running
    /\ prod.pc = "start"
    /\ wg' = wg - 1
    /\ prod' = [prod EXCEPT !.pc = "send", !.Path = NextPath(prod.Path, 1)]
    /\ UNCHANGED <<pc, cfgVars, rankVars, bestVars, b, closed, worker, totalBytes,
                   totalDur, totalBytesLock, sent, fetched, mb>>

\* the producer after its send of URL number n went through
ProdAfterSend(p) ==
    IF p.n + 1 < NumUrls
    THEN [p EXCEPT !.n = p.n + 1, !.Path = NextPath(p.Path, p.n + 2)]
    ELSE [p EXCEPT !.pc = "close", !.n = p.n + 1]

\* lines 243 and 259: ch is unbuffered, the send and a receive happen together
Transfer(w) ==
    /\ Running
    /\ prod.pc = "send"
    /\ worker[w].pc = "recv"
    /\ worker' = [worker EXCEPT ![w] =
                     [pc |-> "fetch", url |-> [host |-> prod.Host, path |-> prod.Path],
                      n |-> prod.n + 1, b |-> 0, d |-> 0]]
    /\ sent' = Append(sent, [host |-> prod.Host, path |-> prod.Path])
    /\ prod' = ProdAfterSend(prod)
    /\ UNCHANGED <<pc, cfgVars, rankVars, bestVars, wg, b, closed, totalBytes,
                   totalDur, totalBytesLock, fetched, mb>>

\* line 246 left out: the producer returns without close(ch)
ProdReturnsUnclosed ==
    /\ Running
    /\ prod.pc = "close"
    /\ prod' = [prod EXCEPT !.pc = "exit"]
    /\ UNCHANGED <<pc, cfgVars, rankVars, bestVars, wg, b, closed, worker,
                   totalBytes, totalDur, totalBytesLock, sent, fetched, mb>>

\* line 246
ProdClose ==
    /\ Running
    /\ prod.pc = "close"
    /\ closed' = TRUE
    /\ prod' = [prod EXCEPT !.pc = "exit"]
    /\ UNCHANGED <<pc, cfgVars, rankVars, bestVars, wg, b, worker, totalBytes,
                   totalDur, totalBytesLock, sent, fetched, mb>>

\* lines 251-253: wg.Add(1) and the go statement of the next consumer
WorkerSpawn(w) ==
    /\ pc = "consumers"
    /\ worker[w].pc = "unspawned"
    /\ \A v \in Workers : v < w => worker[v].pc # "unspawned"
    /\ wg' = wg + 1
    /\ worker' = [worker EXCEPT ![w].pc = "recv"]
    /\ UNCHANGED <<pc, cfgVars, rankVars, bestVars, b, prod, closed, totalBytes,
                   totalDur, totalBytesLock, sent, fetched, mb>>

\* line 263: the error of fetchHttp is dropped
WorkerFetch(w) ==
    /\ Running
    /\ worker[w].pc = "fetch"
    /\ \E r \in FetchHttp(worker[w].url.host, BodyLens, DownloadDurations) :
          /\ worker' = [worker EXCEPT ![w].pc = "lock", ![w].b = r.len, ![w].d = r.dur]
          /\ fetched' = [fetched EXCEPT ![worker[w].n] = Append(@, r)]
    /\ UNCHANGED <<pc, cfgVars, rankVars, bestVars, wg, b, prod, closed, totalBytes,
                   totalDur, totalBytesLock, sent, mb>>

\* line 264
WorkerLock(w) ==
    /\ Running
    /\ worker[w].pc = "lock"
    /\ LockReturns(totalBytesLock)
    /\ totalBytesLock' = w
    /\ worker' = [worker EXCEPT ![w].pc = "locked"]
    /\ UNCHANGED <<pc, cfgVars, rankVars, bestVars, wg, b, prod, closed, totalBytes,
                   totalDur, sent, fetched, mb>>

\* lines 265-266
AddBytes(total, w) == total + w.b

AddDur(total, w) == total + w.d

\* line 265
WorkerAddBytes(w) ==
    /\ Running
    /\ worker[w].pc = "locked"
    /\ totalBytes' = AddBytes(totalBytes, worker[w])
    /\ worker' = [worker EXCEPT ![w].pc = "added"]
    /\ UNCHANGED <<pc, cfgVars, rankVars, bestVars, wg, b, prod, closed, totalDur,
                   totalBytesLock, sent, fetched, mb>>

\* lines 266-267 with a retry: after a failed request the worker fetches the
\* same URL again
WorkerAddRetry(w) ==
    /\ Running
    /\ worker[w].pc = "added"
    /\ totalDur' = AddDur(totalDur, worker[w])
    /\ totalBytesLock' = 0
    /\ worker' = [worker EXCEPT ![w] =
                     IF worker[w].b = 0 THEN [worker[w] EXCEPT !.pc = "fetch"]
                     ELSE Idle("recv")]
    /\ UNCHANGED <<pc, cfgVars, rankVars, bestVars, wg, b, prod, closed, totalBytes,
                   sent, fetched, mb>>

\* lines 266-267, and back to the top of the loop
WorkerAdd(w) ==
    /\ Running
    /\ worker[w].pc = "added"
    /\ totalDur' = AddDur(totalDur, worker[w])
    /\ totalBytesLock' = 0
    /\ worker' = [worker EXCEPT ![w] = Idle("recv")]
    /\ UNCHANGED <<pc, cfgVars, rankVars, bestVars, wg, b, prod, closed, totalBytes,
                   sent, fetched, mb>>

\* lines 259-261 and 254: the receive from the closed channel, the break and
\* the deferred wg.Done()
WorkerExit(w) ==
    /\ Running
    /\ worker[w].pc = "recv"
    /\ closed
    /\ wg' = wg - 1
    /\ worker' = [worker EXCEPT ![w] = Idle("done")]
    /\ UNCHANGED <<pc, cfgVars, rankVars, bestVars, b, prod, closed, totalBytes,
                   totalDur, totalBytesLock, sent, fetched, mb>>

\* lines 273-275: the rate is (bytes / (dur / 10^9)) / bytesPerMegabit, kept as
\* the numbers it is computed from
MegaBitsPerSecond(bytes, dur) ==
    [bytes |-> bytes, dur |-> dur, bytesPerMegabit |-> bytesPerMegabit]

\* lines 271-275 and 120: wg.Wait() returns, the rate is computed and printed,
\* main returns
DlWait ==
    /\ pc = "consumers"
    /\ \A w \in Workers : worker[w].pc # "unspawned"
    /\ WaitReturns(wg)
    /\ mb' = MegaBitsPerSecond(totalBytes, totalDur)
    /\ pc' = "done"
    /\ UNCHANGED <<cfgVars, rankVars, bestVars, wg, b, prod, closed, worker,
                   totalBytes, totalDur, totalBytesLock, sent, fetched>>

(***************************************************************************)
(* Initial states.                                                         *)
(***************************************************************************)
NoBest ==
    /\ firstPass = TRUE
    /\ bestServer = ZeroServer
    /\ bestServerLock = 0
    /\ task = <<>>
    /\ recorded = <<>>

NoDownload ==
    /\ b = ZeroServer
    /\ prod = [pc |-> "none", n |-> 0, Host |-> FALSE, Path |-> <<>>]
    /\ closed = FALSE
    /\ worker = <<>>
    /\ totalBytes = 0
    /\ totalDur = 0
    /\ totalBytesLock = 0
    /\ sent = <<>>
    /\ fetched = <<>>
    /\ mb = <<>>

\* the process starts
Init ==
    /\ pc = "main"
    /\ flagServer = ""
    /\ config = <<>>
    /\ unmarshalErr = FALSE
    /\ client = Point(0, 0)
    /\ servers = <<>>
    /\ idx = 0
    /\ closestServers = {}
    /\ s = {}
    /\ wg = 0
    /\ NoBest
    /\ NoDownload

\* getClosestServers has decoded a server list and enters its loop
InitRank ==
    /\ pc = "rank"
    /\ flagServer = ""
    /\ config = <<>>
    /\ unmarshalErr = FALSE
    /\ client \in ClientPoints
    /\ \E k \in 0..MaxServers : \E f \in [1..k -> RankPoints \X {RankUrl}] :
          servers = <<ServerList(f)>>
    /\ idx = 1
    /\ closestServers = {}
    /\ s = {}
    /\ wg = 0
    /\ NoBest
    /\ NoDownload

NextRank == RankStep \/ RankReturn

SpecRank == InitRank /\ [][NextRank]_vars

(***************************************************************************)
(* Claims about getClosestServers, checked under SpecRank.                 *)
(***************************************************************************)
\* getClosestServers has returned
RankReturned == pc = "getBestServer"

\* the candidates of the decoded list, with the distance line 158 computes
Candidates ==
    {[servers[1][i] EXCEPT !.Distance =
          distance(Point(client.Lat, client.Long),
                   Point(servers[1][i].Lat, servers[1][i].Long))] :
        i \in 1..Len(servers[1])}

ReturnedNames == {r.Name : r \in s}

\* C1: for a list of n candidates getClosestServers returns exactly
\* min(5, n) servers, also when candidates have equal distances.
C1_ReturnsMinFiveN ==
    RankReturned => Cardinality(s) = Min(5, Len(servers[1]))

\* C2: every returned server is at most as far away as every candidate that
\* was not returned.
C2_ReturnedAreClosest ==
    RankReturned =>
        \A r \in s : \A c \in Candidates :
            c.Name \notin ReturnedNames => FloatLeq(r.Distance, c.Distance)

\* the distances of the candidates are numbers and differ from one another
DistinctDistances ==
    \A c, d \in Candidates :
        /\ c.Distance # NaN
        /\ c.Name # d.Name => c.Distance # d.Distance

\* with numbers that differ as distances, the returned servers are the
\* min(5, n) closest candidates
RankingOfDistinctDistances ==
    (RankReturned /\ DistinctDistances) =>
        /\ C1_ReturnsMinFiveN
        /\ C2_ReturnedAreClosest

\* a sixth candidate, closer than one of five kept, has replaced the farthest
ReplacedFarthest ==
    /\ RankReturned
    /\ DistinctDistances
    /\ Len(servers[1]) = 6
    /\ 6 \in ReturnedNames

Next ==
    \/ Main
    \/ GetConfig
    \/ GetClient
    \/ FetchServers
    \/ RankStep
    \/ RankReturn
    \/ BestInit
    \/ \E n \in DOMAIN task :
          \/ BestSpawn(n)
          \/ TaskParse(n)
          \/ TaskProbe(n)
          \/ TaskLock(n)
          \/ TaskRecord(n)
          \/ TaskDone(n)
    \/ BestWait
    \/ DlStart
    \/ ProdStart
    \/ ProdClose
    \/ \E w \in DOMAIN worker :
          \/ Transfer(w)
          \/ WorkerSpawn(w)
          \/ WorkerFetch(w)
          \/ WorkerLock(w)
          \/ WorkerAddBytes(w)
          \/ WorkerAdd(w)
          \/ WorkerExit(w)
    \/ DlWait

Spec == Init /\ [][Next]_vars

(***************************************************************************)
(* Claims about getBestServer, checked under Spec.                         *)
(***************************************************************************)
\* getBestServer has returned to main
BestReturned == pc = "downloadSpeed"

\* the Names of the candidates getBestServer was called with
CandidateNames == DOMAIN task

\* the Ping values the goroutines computed
RecordedPings == {recorded[i].Ping : i \in 1..Len(recorded)}

\* the place in recorded of the goroutine of the returned server
PlacesOfBest == {i \in 1..Len(recorded) : recorded[i].Name = b.Name}

\* C3: for a non-empty candidate set the server getBestServer returns is one
\* of the candidates, with the Ping its goroutine computed, and that Ping is
\* at most the Ping computed for every other candidate.
C3_BestHasLowestPing ==
    (BestReturned /\ CandidateNames # {}) =>
        /\ b.Name \in CandidateNames
        /\ {recorded[i].Name : i \in 1..Len(recorded)} = CandidateNames
        /\ \E i \in PlacesOfBest : recorded[i].Ping = b.Ping
        /\ \A p \in RecordedPings : b.Ping <= p

\* two candidates with different Pings, the lower one recorded last
C3_Witness ==
    /\ BestReturned
    /\ Len(recorded) = 2
    /\ recorded[1].Ping > recorded[2].Ping
    /\ recorded[2].probes = timesToRunLatency
    /\ b.Name = recorded[2].Name

\* C4: a candidate none of whose probes succeeded is not returned when a probe
\* of another candidate succeeded.
C4_FailedNotBest ==
    BestReturned =>
        \A i \in PlacesOfBest :
            recorded[i].probes = 0 =>
                \A j \in 1..Len(recorded) : recorded[j].probes = 0

\* C5: of the candidates that share the lowest Ping, the one whose goroutine
\* took bestServerLock first is returned.
C5_FirstOfLowestWins ==
    (BestReturned /\ recorded # <<>>) =>
        LET lowest == {i \in 1..Len(recorded) :
                          \A p \in RecordedPings : recorded[i].Ping <= p}
            first == CHOOSE i \in lowest : \A j \in lowest : i <= j
        IN  b.Name = recorded[first].Name

\* two candidates with the same Ping, the second of the list recorded first
C5_Witness ==
    /\ BestReturned
    /\ Len(recorded) = 2
    /\ recorded[1].Ping = recorded[2].Ping
    /\ recorded[1].probes = timesToRunLatency
    /\ recorded[2].probes = timesToRunLatency
    /\ recorded[1].Name = 2
    /\ b.Name = 2

(***************************************************************************)
(* Claims about downloadSpeed, checked under Spec.                         *)
(***************************************************************************)
\* downloadSpeed has computed the rate
DlReturned == pc = "done"

\* the sum of a field over the first fetch of each of the first k URLs that
\* succeeded
RECURSIVE SumOver(_, _, _)
SumOver(f, k, field) ==
    IF k = 0 THEN 0
    ELSE SumOver(f, k - 1, field) +
         (IF f[k] = <<>> \/ f[k][1].err THEN 0 ELSE f[k][1][field])

\* the bytes and the time of the downloads that succeeded
SuccessfulBytes == SumOver(fetched, NumUrls, "len")

SuccessfulDur == SumOver(fetched, NumUrls, "dur")

\* C6: after all workers have finished, totalBytes is the sum of the byte
\* counts and totalDur the sum of the durations of the successful downloads.
C6_TotalsAreSums ==
    DlReturned =>
        /\ totalBytes = SuccessfulBytes
        /\ totalDur = SuccessfulDur
        /\ mb = MegaBitsPerSecond(SuccessfulBytes, SuccessfulDur)

\* C7: every URL the producer sends is received by one worker and fetched
\* once: NumUrls requests in all, none skipped, none repeated.
C7_EachUrlFetchedOnce ==
    /\ \A k \in DOMAIN fetched : Len(fetched[k]) <= 1
    /\ \A k \in DOMAIN fetched : fetched[k] # <<>> => k <= Len(sent)
    /\ \A w, v \in DOMAIN worker :
          (w # v /\ worker[w].n # 0) => worker[w].n # worker[v].n
    /\ DlReturned =>
          /\ Len(sent) = NumUrls
          /\ \A k \in 1..NumUrls : Len(fetched[k]) = 1

\* the run is over, a request failed and each of two workers made a request
C7_Witness ==
    /\ DlReturned
    /\ \E k \in 1..NumUrls : fetched[k][1].err
    /\ \E k \in 1..NumUrls : ~fetched[k][1].err
    /\ Cardinality(DOMAIN worker) >= 2

\* C8: the producer sends one URL per size and repetition, sizes ascending,
\* each size duplicateDownloads times in a row, every URL naming
\* random<size>x<size>.jpg for its own size; it closes ch after the last URL
\* has been handed over and sends nothing after that.
C8_ProducerSequence ==
    /\ Len(sent) <= NumUrls
    /\ \A k \in 1..Len(sent) :
          /\ sent[k].path # <<>>
          /\ sent[k].path[Len(sent[k].path)] = RandomJpg(SizeOf(k))
    /\ closed => Len(sent) = NumUrls

\* C9: a failed download request leaves totalBytes and totalDur as they were.
C9_FailedAddsNothing ==
    \A w \in DOMAIN worker :
        (worker[w].pc \in {"lock", "locked"} /\ fetched[worker[w].n][1].err) =>
            /\ AddBytes(totalBytes, worker[w]) = totalBytes
            /\ AddDur(totalDur, worker[w]) = totalDur

\* C10: getBestServer returns only after every probe goroutine has finished,
\* no download request is made before that, and downloadSpeed computes the
\* rate only after the producer has closed ch and every worker has exited.
C10_Barriers ==
    /\ (pc \in {"downloadSpeed", "consumers", "done"} \/ sent # <<>>) =>
          \A n \in DOMAIN task : task[n].pc = "done"
    /\ DlReturned =>
          /\ closed
          /\ prod.pc = "exit"
          /\ \A w \in Workers : worker[w].pc = "done"

\* the run is over after two probe goroutines and two workers
C10_Witness ==
    /\ DlReturned
    /\ Cardinality(DOMAIN task) = 2
    /\ Cardinality(DOMAIN worker) >= 2
    /\ Len(sent) = NumUrls

(***************************************************************************)
(* Claims about the latency probes, checked under Spec.                    *)
(***************************************************************************)
\* C11: every probe goroutine issues exactly timesToRunLatency probes, whether
\* or not one of them fails: after a failed probe it goes on with the
\* remaining ones.
C11_FiveProbesEach ==
    \A i \in 1..Len(recorded) : recorded[i].issued = timesToRunLatency

\* C12: the Ping of a candidate is the summed duration of its successful
\* probes in whole milliseconds, divided by timesToRunLatency and rounded
\* down; failed probes add nothing, the divisor is fixed and the Ping is never
\* negative.
C12_MeanOfSuccessful ==
    \A i \in 1..Len(recorded) :
        /\ recorded[i].Ping =
               durationToMilliSeconds(recorded[i].okDur) \div timesToRunLatency
        /\ recorded[i].Ping >= 0

(***************************************************************************)
(* getBestServer() alone, with a scheduler that lets no goroutine that can *)
(* take a step wait forever.                                               *)
(***************************************************************************)
\* the closestServers map after the first k servers of a list
RECURSIVE RankedAfter(_, _, _)
RankedAfter(c, list, k) ==
    IF k = 0 THEN {}
    ELSE ClosestAfter(RankedAfter(c, list, k - 1), c, list[k])

\* main calls getBestServer with what getClosestServers returned
InitBest ==
    /\ pc = "getBestServer"
    /\ flagServer = ""
    /\ config = <<>>
    /\ unmarshalErr = FALSE
    /\ \E c \in ClientPoints :
          \E list \in ServerLists(ServerPoints, ServerUrls, MaxCand) :
              /\ client = c
              /\ servers = <<list>>
              /\ idx = Len(list) + 1
              /\ closestServers = RankedAfter(c, list, Len(list))
              /\ s = MapValues(RankedAfter(c, list, Len(list)))
    /\ wg = 0
    /\ NoBest
    /\ NoDownload

NextBest ==
    \/ BestInit
    \/ \E n \in DOMAIN task :
          \/ BestSpawn(n)
          \/ TaskParse(n)
          \/ TaskProbe(n)
          \/ TaskLock(n)
          \/ TaskRecord(n)
          \/ TaskDone(n)
    \/ BestWait

SpecBest == InitBest /\ [][NextBest]_vars /\ WF_vars(NextBest)

\* getBestServer has started its goroutines' loop over candidates whose URLs
\* all parse
ProbingStarts ==
    /\ pc = "spawn"
    /\ CandidateNames # {}
    /\ \A n \in CandidateNames :
          task[n].pc = "unspawned" /\ task[n].server.Url.ok

\* every goroutine has recorded its Ping and none of them had a probe succeed
AllProbesFailed ==
    /\ CandidateNames # {}
    /\ {recorded[i].Name : i \in 1..Len(recorded)} = CandidateNames
    /\ \A i \in 1..Len(recorded) : recorded[i].probes = 0

\* C13: getBestServer called with candidates whose URLs parse always comes to
\* its return, whatever the probes do, and when every probe of every candidate
\* failed it returns one of the candidates: the run has not crashed or
\* aborted.
C13_AllFailStillReturns ==
    /\ ProbingStarts ~> BestReturned
    /\ [](AllProbesFailed => pc \in {"spawn", "downloadSpeed"})
    /\ []((AllProbesFailed /\ BestReturned) => b.Name \in CandidateNames)

\* two candidates, every probe of both failed, getBestServer has returned
C13_Witness ==
    /\ BestReturned
    /\ AllProbesFailed
    /\ Len(recorded) = 2
    /\ \A i \in 1..Len(recorded) : recorded[i].issued >= 1

(***************************************************************************)
(* Claims about main(), getConfig() and getClosestServers(), checked under *)
(* Spec.                                                                   *)
(***************************************************************************)
\* C14: when the -server flag names a server, the run skips the ranking of
\* the servers and the latency probes: it never enters getClosestServers or
\* getBestServer.
C14_ServerFlagSkipsProbing ==
    flagServer # "" =>
        pc \notin {"getClosestServers", "rank", "getBestServer", "spawn"}

\* C15: when the configuration or the server list does not decode, the run
\* aborts at that point: the step that follows an xml.Unmarshal error ends
\* the process.
C15_UndecodableAborts ==
    [][unmarshalErr => pc' \in {"fatal", "panic"}]_vars

(***************************************************************************)
(* Claims about the URLs of the candidates, checked under SpecBest.        *)
(***************************************************************************)
\* a candidate of getBestServer has a URL that url.Parse rejects
UnparsableCandidate ==
    \E n \in DOMAIN task : ~task[n].server.Url.ok

\* C16: when the URL of a candidate cannot be parsed the whole run aborts:
\* getBestServer does not return a server, no download request is made, and
\* the process comes to its log.Fatal whatever the other candidates' probes
\* are doing.
C16_UnparsableAborts ==
    /\ [](UnparsableCandidate =>
             /\ pc \in {"spawn", "fatal"}
             /\ b = ZeroServer
             /\ sent = <<>>)
    /\ UnparsableCandidate ~> (pc = "fatal")

\* the process has ended at the log.Fatal of one goroutine after the
\* goroutine of another candidate has recorded its Ping
C16_Witness ==
    /\ pc = "fatal"
    /\ UnparsableCandidate
    /\ Len(recorded) = 1
    /\ recorded[1].probes = timesToRunLatency

\* C17: for a server list that was fetched and decoded without an error and
\* holds no server, getClosestServers does not end the run and returns the
\* empty slice.
C17_NoCandidatesReturnsEmpty ==
    [][/\ (/\ pc = "getClosestServers"
           /\ pc' # "fatal"
           /\ ~unmarshalErr'
           /\ \A g \in 1..Len(servers') : servers'[g] = <<>>) => pc' = "rank"
       /\ (pc = "rank" /\ servers[1] = <<>>) =>
              (pc' = "getBestServer" /\ s' = {})]_vars

(***************************************************************************)
(* Claims about distance(), checked under SpecRank, which draws the client *)
(* and the servers and applies distance() to them.                         *)
(***************************************************************************)
\* C18: distance is symmetric and zero on identical points: the distance
\* line 158 computed from the client to a server is the distance from that
\* server to the client, and the distance of a point to itself is 0.
C18_DistanceSymmetric ==
    \A e \in closestServers :
        /\ FloatEq(e.v.Distance,
                   distance(Point(e.v.Lat, e.v.Long),
                            Point(client.Lat, client.Long)))
        /\ FloatEq(distance(Point(e.v.Lat, e.v.Long), Point(e.v.Lat, e.v.Long)), 0)
        /\ FloatEq(distance(Point(client.Lat, client.Long),
                            Point(client.Lat, client.Long)), 0)

(***************************************************************************)
(* Claims about the locks, checked under Spec.                             *)
(***************************************************************************)
\* the goroutines inside the critical section of bestServerLock
TasksInSection == {n \in DOMAIN task : task[n].pc = "locked"}

\* the goroutines inside the critical section of totalBytesLock
WorkersInSection == {w \in DOMAIN worker : worker[w].pc \in {"locked", "added"}}

\* the requests that are complete: fetched, and added to the totals
Completed ==
    {k \in DOMAIN fetched :
        fetched[k] # <<>> /\ \A w \in DOMAIN worker : worker[w].n # k}

\* the sum of a field of the results of the complete requests among the
\* first k
RECURSIVE SumCompleted(_, _)
SumCompleted(k, field) ==
    IF k = 0 THEN 0
    ELSE SumCompleted(k - 1, field) +
         (IF k \in Completed THEN fetched[k][1][field] ELSE 0)

\* C19: at most one goroutine at a time is between Lock and Unlock of
\* bestServerLock, and it is the holder; the same for totalBytesLock; while
\* no worker holds totalBytesLock, totalBytes and totalDur are the sums over
\* the same complete requests (totalDur on top of its initial clock reading);
\* bestServer and the totals are read by main only while no goroutine holds
\* the lock.
C19_LocksGuardAggregates ==
    /\ Cardinality(TasksInSection) <= 1
    /\ \A n \in DOMAIN task : n \in TasksInSection <=> bestServerLock = n
    /\ Cardinality(WorkersInSection) <= 1
    /\ \A w \in DOMAIN worker : w \in WorkersInSection <=> totalBytesLock = w
    /\ (pc \in {"consumers", "done"} /\ totalBytesLock = 0) =>
          /\ totalBytes = SumCompleted(NumUrls, "len")
          /\ (totalDur - SumCompleted(NumUrls, "dur")) \in TimeSinceNow
    /\ BestReturned => TasksInSection = {}
    /\ DlReturned =>
          /\ WorkersInSection = {}
          /\ mb = MegaBitsPerSecond(totalBytes, totalDur)

\* a worker is between its two additions, totalBytes ahead of totalDur, while
\* another worker waits for the lock
C19_Witness ==
    /\ \E w, v \in DOMAIN worker :
          /\ worker[w].pc = "added"
          /\ worker[w].b > 0
          /\ worker[v].pc = "lock"
    /\ totalBytes > SumCompleted(NumUrls, "len")
    /\ Cardinality(DOMAIN task) = 2

(***************************************************************************)
(* downloadSpeed() alone, with a scheduler that lets no goroutine that can *)
(* take a step wait forever and HTTP requests that all return.             *)
(***************************************************************************)
\* the servers getBestServer can have returned for one candidate: all five
\* probes took 1 ms each, or the first probe failed
BestOfOne ==
    {[Server(1, pt, u) EXCEPT !.Distance = distance(c, pt), !.Ping = p] :
        c \in ClientPoints, pt \in ServerPoints,
        u \in {x \in ServerUrls : x.ok}, p \in {0, 1}}

\* main calls downloadSpeed with what getBestServer returned: the zero Server
\* for no candidate, or the one candidate
InitDl ==
    /\ pc = "downloadSpeed"
    /\ flagServer = ""
    /\ config = <<>>
    /\ unmarshalErr = FALSE
    /\ client = Point(0, 0)
    /\ servers = <<>>
    /\ idx = 0
    /\ closestServers = {}
    /\ s = {}
    /\ wg = 0
    /\ bestServerLock = 0
    /\ \/ /\ NoBest
          /\ b = ZeroServer
       \/ \E srv \in BestOfOne :
             /\ firstPass = FALSE
             /\ bestServer = srv
             /\ b = srv
             /\ task = [n \in {1} |-> NoFrame("done", ZeroServer)]
             /\ recorded =
                    <<[Name |-> 1, Ping |-> srv.Ping,
                       probes |-> IF srv.Ping = 0 THEN 0 ELSE timesToRunLatency,
                       issued |-> IF srv.Ping = 0 THEN 1 ELSE timesToRunLatency,
                       okDur |-> IF srv.Ping = 0 THEN 0
                                 ELSE timesToRunLatency * 1000000]>>
    /\ prod = [pc |-> "none", n |-> 0, Host |-> FALSE, Path |-> <<>>]
    /\ closed = FALSE
    /\ worker = <<>>
    /\ totalBytes = 0
    /\ totalDur = 0
    /\ totalBytesLock = 0
    /\ sent = <<>>
    /\ fetched = <<>>
    /\ mb = <<>>

NextDl ==
    \/ DlStart
    \/ ProdStart
    \/ ProdClose
    \/ \E w \in DOMAIN worker :
          \/ Transfer(w)
          \/ WorkerSpawn(w)
          \/ WorkerFetch(w)
          \/ WorkerLock(w)
          \/ WorkerAddBytes(w)
          \/ WorkerAdd(w)
          \/ WorkerExit(w)
    \/ DlWait

SpecDl == InitDl /\ [][NextDl]_vars /\ WF_vars(NextDl)

\* the download requests that are in flight
InFlight == {w \in DOMAIN worker : worker[w].pc = "fetch"}

\* C20: the download stage always finishes: once the producer is started it
\* comes to close ch, every worker sees the close and exits, and downloadSpeed
\* returns; the requests in flight are never more than the consumer
\* goroutines, of which there are at most concurrentDownloads.
C20_DownloadFinishes ==
    /\ (pc = "consumers") ~> (prod.pc = "exit" /\ closed)
    /\ (pc = "consumers") ~>
           (DOMAIN worker = Workers /\ \A w \in DOMAIN worker : worker[w].pc = "done")
    /\ (pc = "consumers") ~> DlReturned
    /\ [](/\ Cardinality(InFlight) <= Cardinality(Workers)
          /\ Cardinality(Workers) <= concurrentDownloads)

\* downloadSpeed has returned after every request failed, the requests shared
\* between two workers
C20_Witness ==
    /\ DlReturned
    /\ closed
    /\ \A k \in 1..NumUrls : Len(fetched[k]) = 1 /\ fetched[k][1].err
    /\ \A w \in DOMAIN worker : worker[w].pc = "done"
    /\ Cardinality(DOMAIN worker) >= 2

====
